---- MODULE Spec2Model ----
(***************************************************************************)
(* Event reconciliation of bustabook-college:                              *)
(*   scripts/scaffold_games_from_my_events.py  (scaffolding driver)        *)
(*   scripts/print_event_prompts.py            (prompt driver, Pass A/B)   *)
(*                                                                         *)
(* A Python str is modelled as a sequence of one-character strings, so     *)
(* that lower(), re.sub(), strip(), split(), strptime()/strftime(), the    *)
(* glob and the filename regex are computed character by character.  A     *)
(* missing key (dict.get -> None) and the empty string are both the empty  *)
(* sequence: the scripts read team names, ids and intended dates through   *)
(* `x or ''`, `not x` or slugify's `if not name`, which do not tell them   *)
(* apart.  Feed records carry a commence_time (str(None) is not modelled), *)
(* and both input files are valid JSON lists of objects.                   *)
(***************************************************************************)
EXTENDS Integers, Sequences, FiniteSets, TLC

(***************************************************************************)
(* Characters                                                              *)
(***************************************************************************)
UpperChars == <<"A","B","C","D","E","F","G","H","I","J","K","L","M",
                "N","O","P","Q","R","S","T","U","V","W","X","Y","Z">>
LowerChars == <<"a","b","c","d","e","f","g","h","i","j","k","l","m",
                "n","o","p","q","r","s","t","u","v","w","x","y","z">>
DigitChars == <<"0","1","2","3","4","5","6","7","8","9">>

Range(s) == {s[i] : i \in 1..Len(s)}

UpperSet == Range(UpperChars)
LowerSet == Range(LowerChars)
DigitSet == Range(DigitChars)
SlugSet  == LowerSet \cup DigitSet

IsDigit(c) == c \in DigitSet
\* [a-z0-9]
IsSlugChar(c) == c \in SlugSet
\* str.strip() with no argument strips whitespace
IsSpace(c) == c \in {" ", "\t", "\n"}

DigitVal(c) == (CHOOSE i \in 1..10 : DigitChars[i] = c) - 1

\* str.lower(), one character
LowerChar(c) ==
    IF c \in UpperSet
    THEN LowerChars[CHOOSE i \in 1..26 : UpperChars[i] = c]
    ELSE c

Lower(s) == [i \in 1..Len(s) |-> LowerChar(s[i])]

\* code points, for sorted(): only their order matters
Ord(c) ==
    CASE c = "\t" -> 9
      [] c = "\n" -> 10
      [] c = " " -> 32
      [] c = "&" -> 38
      [] c = "(" -> 40
      [] c = ")" -> 41
      [] c = "-" -> 45
      [] c = "." -> 46
      [] c = ":" -> 58
      [] IsDigit(c) -> 48 + DigitVal(c)
      [] c \in UpperSet -> 64 + (CHOOSE i \in 1..26 : UpperChars[i] = c)
      [] c \in LowerSet -> 96 + (CHOOSE i \in 1..26 : LowerChars[i] = c)
      [] OTHER -> 63

(***************************************************************************)
(* String helpers                                                          *)
(***************************************************************************)
Sub(s, a, b) == IF a > b THEN <<>> ELSE SubSeq(s, a, b)

\* s[from:].startswith(p)
StartsAt(s, p, from) ==
    /\ from + Len(p) - 1 <= Len(s)
    /\ \A k \in 1..Len(p) : s[from + k - 1] = p[k]

\* x.strip()
Strip(s) ==
    LET keep == {i \in 1..Len(s) : ~IsSpace(s[i])}
    IN  IF keep = {} THEN <<>>
        ELSE Sub(s, CHOOSE i \in keep : \A j \in keep : i <= j,
                    CHOOSE i \in keep : \A j \in keep : i >= j)

\* x.strip('-')
StripHyphens(s) ==
    LET keep == {i \in 1..Len(s) : s[i] # "-"}
    IN  IF keep = {} THEN <<>>
        ELSE Sub(s, CHOOSE i \in keep : \A j \in keep : i <= j,
                    CHOOSE i \in keep : \A j \in keep : i >= j)

\* the end of the leftmost match of \(.*?\) starting at i, or 0: the first ")"
\* after i, provided no newline lies between ("." does not match a newline)
CloseAfter(s, i) ==
    LET js == {j \in (i+1)..Len(s) : s[j] = ")"}
    IN  IF js = {} THEN 0
        ELSE LET j == CHOOSE j \in js : \A k \in js : j <= k
             IN  IF \E k \in (i+1)..(j-1) : s[k] = "\n" THEN 0 ELSE j

\* re.sub(r"\(.*?\)", "", s)
RECURSIVE StripParensFrom(_, _)
StripParensFrom(s, i) ==
    IF i > Len(s) THEN <<>>
    ELSE IF s[i] = "(" /\ CloseAfter(s, i) # 0
         THEN StripParensFrom(s, CloseAfter(s, i) + 1)
         ELSE <<s[i]>> \o StripParensFrom(s, i + 1)

StripParens(s) == StripParensFrom(s, 1)

\* s.replace('&', ' and ')
RECURSIVE ReplaceAmp(_)
ReplaceAmp(s) ==
    IF s = <<>> THEN <<>>
    ELSE (IF Head(s) = "&" THEN <<" ","a","n","d"," ">> ELSE <<Head(s)>>)
         \o ReplaceAmp(Tail(s))

\* re.sub(r"[^a-z0-9]+", "-", s): each maximal run becomes one hyphen
RECURSIVE NonSlugToHyphenFrom(_, _)
NonSlugToHyphenFrom(s, i) ==
    IF i > Len(s) THEN <<>>
    ELSE IF IsSlugChar(s[i]) THEN <<s[i]>> \o NonSlugToHyphenFrom(s, i + 1)
    ELSE IF i > 1 /\ ~IsSlugChar(s[i-1]) THEN NonSlugToHyphenFrom(s, i + 1)
    ELSE <<"-">> \o NonSlugToHyphenFrom(s, i + 1)

NonSlugToHyphen(s) == NonSlugToHyphenFrom(s, 1)

\* re.sub(r"-+", "-", s)
RECURSIVE CollapseHyphensFrom(_, _)
CollapseHyphensFrom(s, i) ==
    IF i > Len(s) THEN <<>>
    ELSE IF s[i] = "-" /\ i > 1 /\ s[i-1] = "-" THEN CollapseHyphensFrom(s, i + 1)
    ELSE <<s[i]>> \o CollapseHyphensFrom(s, i + 1)

CollapseHyphens(s) == CollapseHyphensFrom(s, 1)

(***************************************************************************)
(* Normalizer                                                              *)
(***************************************************************************)
TeamToken == <<"t","e","a","m">>

\* slugify() of both scripts (the two definitions are the same text)
slugify(name) ==
    IF name = <<>> THEN TeamToken
    ELSE StripHyphens(CollapseHyphens(NonSlugToHyphen(
             ReplaceAmp(StripParens(Lower(name))))))

\* norm(): the comparison key (normalizeKey)
norm(s) ==
    StripHyphens(CollapseHyphens(NonSlugToHyphen(StripParens(Lower(s)))))

(***************************************************************************)
(* Date Tolerance Expander: datetime.strptime(d, '%Y-%m-%d'),              *)
(* base + timedelta(days=delta), strftime('%Y-%m-%d')                      *)
(***************************************************************************)
NoDate == [ok |-> FALSE, y |-> 0, m |-> 0, d |-> 0]

IsLeap(y) == (y % 4 = 0 /\ y % 100 # 0) \/ y % 400 = 0

DaysInMonth(y, m) ==
    IF m = 2 THEN (IF IsLeap(y) THEN 29 ELSE 28)
    ELSE IF m \in {4, 6, 9, 11} THEN 30 ELSE 31

\* the positions of "-" in s
HyphenPositions(s) == {i \in 1..Len(s) : s[i] = "-"}

\* %m : 1[0-2]|0[1-9]|[1-9]     (0 when the text is no month)
MonthOf(t) ==
    IF Len(t) = 1 /\ IsDigit(t[1]) /\ t[1] # "0" THEN DigitVal(t[1])
    ELSE IF Len(t) = 2 /\ t[1] = "0" /\ IsDigit(t[2]) /\ t[2] # "0" THEN DigitVal(t[2])
    ELSE IF Len(t) = 2 /\ t[1] = "1" /\ t[2] \in {"0", "1", "2"} THEN 10 + DigitVal(t[2])
    ELSE 0

\* %d : 3[01]|[12]\d|0[1-9]|[1-9]| [1-9]     (0 when the text is no day)
DayOf(t) ==
    IF Len(t) = 1 /\ IsDigit(t[1]) /\ t[1] # "0" THEN DigitVal(t[1])
    ELSE IF Len(t) = 2 /\ t[1] \in {"0", " "} /\ IsDigit(t[2]) /\ t[2] # "0"
         THEN DigitVal(t[2])
    ELSE IF Len(t) = 2 /\ t[1] \in {"1", "2"} /\ IsDigit(t[2])
         THEN 10 * DigitVal(t[1]) + DigitVal(t[2])
    ELSE IF Len(t) = 2 /\ t[1] = "3" /\ t[2] \in {"0", "1"} THEN 30 + DigitVal(t[2])
    ELSE 0

\* datetime.strptime(s, '%Y-%m-%d'): ok is FALSE where it raises ValueError
\* (no match, unconverted data, a day the month does not have, year 0)
strptime(s) ==
    LET hs == HyphenPositions(s)
    IN  IF ~(Cardinality(hs) = 2 /\ 5 \in hs /\ \A i \in 1..4 : IsDigit(s[i]))
        THEN NoDate
        ELSE LET h2 == CHOOSE i \in hs : i # 5
                 y  == 1000 * DigitVal(s[1]) + 100 * DigitVal(s[2])
                       + 10 * DigitVal(s[3]) + DigitVal(s[4])
                 m  == MonthOf(Sub(s, 6, h2 - 1))
                 d  == DayOf(Sub(s, h2 + 1, Len(s)))
             IN  IF y >= 1 /\ m >= 1 /\ d >= 1 /\ d <= DaysInMonth(y, m)
                 THEN [ok |-> TRUE, y |-> y, m |-> m, d |-> d]
                 ELSE NoDate

\* base + timedelta(days=delta), delta in {-1, 0, 1}: ok is FALSE where the
\* result leaves date.min .. date.max (OverflowError)
AddDays(b, delta) ==
    IF delta = 0 THEN b
    ELSE IF delta = 1 THEN
        IF b.d < DaysInMonth(b.y, b.m) THEN [b EXCEPT !.d = b.d + 1]
        ELSE IF b.m < 12 THEN [b EXCEPT !.m = b.m + 1, !.d = 1]
        ELSE IF b.y < 9999 THEN [b EXCEPT !.y = b.y + 1, !.m = 1, !.d = 1]
        ELSE NoDate
    ELSE
        IF b.d > 1 THEN [b EXCEPT !.d = b.d - 1]
        ELSE IF b.m > 1 THEN [b EXCEPT !.m = b.m - 1, !.d = DaysInMonth(b.y, b.m - 1)]
        ELSE IF b.y > 1 THEN [b EXCEPT !.y = b.y - 1, !.m = 12, !.d = 31]
        ELSE NoDate

TwoDigits(n) == <<DigitChars[(n \div 10) + 1], DigitChars[(n % 10) + 1]>>

\* %Y of the C library: the year in decimal, not padded
RECURSIVE Decimal(_)
Decimal(n) ==
    IF n < 10 THEN <<DigitChars[n + 1]>>
    ELSE Decimal(n \div 10) \o <<DigitChars[(n % 10) + 1]>>

\* strftime('%Y-%m-%d')
strftime(b) == Decimal(b.y) \o <<"-">> \o TwoDigits(b.m) \o <<"-">> \o TwoDigits(b.d)

Deltas == {-1, 0, 1}

\* the date set of ensure_game_file: raises (ok FALSE) where strptime or the
\* addition raises; nothing catches it
scaffold_date_set(d) ==
    LET base == strptime(d)
    IN  IF base.ok /\ \A delta \in Deltas : AddDays(base, delta).ok
        THEN [ok |-> TRUE, dates |-> {strftime(AddDays(base, delta)) : delta \in Deltas}]
        ELSE [ok |-> FALSE, dates |-> {}]

\* alt_dates() without the day after
alt_dates_no_next_day(d) ==
    LET base == strptime(d)
    IN  IF base.ok /\ \A delta \in Deltas : AddDays(base, delta).ok
        THEN {strftime(AddDays(base, delta)) : delta \in {-1, 0}}
        ELSE {d}

\* alt_dates(): {d-1, d, d+1}, or {d} on any exception
alt_dates(d) ==
    LET base == strptime(d)
    IN  IF base.ok /\ \A delta \in Deltas : AddDays(base, delta).ok
        THEN {strftime(AddDays(base, delta)) : delta \in Deltas}
        ELSE {d}

\* date_only(): str(iso).split('T')[0]
date_only(iso) ==
    LET ts == {i \in 1..Len(iso) : iso[i] = "T"}
    IN  IF ts = {} THEN iso
        ELSE Sub(iso, 1, (CHOOSE i \in ts : \A j \in ts : i <= j) - 1)

(***************************************************************************)
(* Identity Deriver and its inverse                                        *)
(***************************************************************************)
GamePrefix == <<"g","a","m","e","-">>
VsInfix    == <<"-","v","s","-">>
JsonSuffix == <<".","j","s","o","n">>

\* f"game-{away_slug}-vs-{home_slug}-{date}.json"
game_filename(away_slug, home_slug, date_str) ==
    GamePrefix \o away_slug \o VsInfix \o home_slug \o <<"-">> \o date_str \o JsonSuffix

\* find_game_file(): the name of the path it returns
find_game_file(away, home, date_str) ==
    game_filename(slugify(away), slugify(home), date_str)

\* fnmatch of 'game-*-vs-*-*.json' ("*" matches any text, the empty one too)
glob_matches(name) ==
    /\ StartsAt(name, GamePrefix, 1)
    /\ Len(name) >= Len(JsonSuffix)
    /\ StartsAt(name, JsonSuffix, Len(name) - 4)
    /\ \E p \in 6..Len(name) :
          /\ StartsAt(name, VsInfix, p)
          /\ \E q \in (p + 4)..(Len(name) - 5) : name[q] = "-"

\* \d{4}-\d{2}-\d{2}
IsDateText(t) ==
    /\ Len(t) = 10
    /\ \A k \in {1, 2, 3, 4, 6, 7, 9, 10} : IsDigit(t[k])
    /\ t[5] = "-" /\ t[8] = "-"

NoParse == [ok |-> FALSE, away_slug |-> <<>>, home_slug |-> <<>>, date |-> <<>>]

\* re.match(r'^game-(.+)-vs-(.+)-(\d{4}-\d{2}-\d{2})\.json$', name): the date is
\* the ten characters before ".json"; of the text between "game-" and "-<date>",
\* the greedy first group runs to the last "-vs-" that leaves both groups
\* non-empty.  "$" also matches before one final newline; "." matches no newline.
parse_game_filename(name) ==
    LET body == IF name # <<>> /\ name[Len(name)] = "\n"
                THEN Sub(name, 1, Len(name) - 1) ELSE name
        n    == Len(body)
        \* "game-" x "-vs-" y "-" date ".json" with x, y of one character at least
        mid  == Sub(body, 6, n - 16)
        ps   == {p \in 2..(Len(mid) - 4) : StartsAt(mid, VsInfix, p)}
    IN  IF /\ n >= 5 + 1 + 4 + 1 + 1 + 10 + 5
           /\ StartsAt(body, GamePrefix, 1)
           /\ StartsAt(body, JsonSuffix, n - 4)
           /\ IsDateText(Sub(body, n - 14, n - 5))
           /\ body[n - 15] = "-"
           /\ \A k \in 1..Len(mid) : mid[k] # "\n"
           /\ ps # {}
        THEN LET p == CHOOSE p \in ps : \A r \in ps : p >= r
             IN  [ok |-> TRUE,
                  away_slug |-> Sub(mid, 1, p - 1),
                  home_slug |-> Sub(mid, p + 4, Len(mid)),
                  date |-> Sub(body, n - 14, n - 5)]
        ELSE NoParse

\* a < b for str (code point order)
RECURSIVE StrLess(_, _)
StrLess(a, b) ==
    IF b = <<>> THEN FALSE
    ELSE IF a = <<>> THEN TRUE
    ELSE IF Head(a) # Head(b) THEN Ord(Head(a)) < Ord(Head(b))
    ELSE StrLess(Tail(a), Tail(b))

\* sorted(S)
RECURSIVE Sorted(_)
Sorted(S) ==
    IF S = {} THEN <<>>
    ELSE LET lo == CHOOSE x \in S : \A y \in S \ {x} : StrLess(x, y)
         IN  <<lo>> \o Sorted(S \ {lo})

(***************************************************************************)
(* Completion Tracker.  Storage is a function from the names of the files  *)
(* that exist to "empty" (whitespace only), "populated" or "unreadable"    *)
(* (read_text raises); a name outside its domain is an absent file.        *)
(***************************************************************************)
\* an existence test that takes a zero-byte file for a missing one
path_exists_nonempty(fs, name) == name \in DOMAIN fs /\ fs[name] # "empty"

\* path.exists()
path_exists(fs, name) == name \in DOMAIN fs

\* file_is_empty() that takes an unreadable file for an empty one
file_is_empty_on_error(fs, name) ==
    name \in DOMAIN fs /\ fs[name] \in {"empty", "unreadable"}

\* file_is_empty()
file_is_empty(fs, name) ==
    IF ~path_exists(fs, name) THEN FALSE
    ELSE IF fs[name] = "unreadable" THEN FALSE
    ELSE fs[name] = "empty"

\* sorted(DATA_DIR.glob('game-*-vs-*-*.json')), as names
glob_game_files(fs) == Sorted({name \in DOMAIN fs : glob_matches(name)})

\* the end of ensure_game_file() writing the file anew whether it exists or not
ensure_path_overwrite(fs, name) ==
    [files |-> [n \in DOMAIN fs \cup {name} |-> IF n = name THEN "empty" ELSE fs[n]],
     created |-> TRUE]

\* the end of ensure_game_file(): an existing path is left alone, an absent
\* one is touched into an empty file
ensure_path(fs, name) ==
    IF path_exists(fs, name)
    THEN [files |-> fs, created |-> FALSE]
    ELSE [files |-> [n \in DOMAIN fs \cup {name} |-> IF n = name THEN "empty" ELSE fs[n]],
          created |-> TRUE]

(***************************************************************************)
(* Event Matcher                                                           *)
(***************************************************************************)
\* the least element of a non-empty set of indices, 0 for none
FirstOf(S) == IF S = {} THEN 0 ELSE CHOOSE k \in S : \A j \in S : k <= j

\* candidates = [e for e in all_events if date_only(e['commence_time']) in date_set]
candidates(date_set, events) ==
    {k \in 1..Len(events) : date_only(events[k].commence_time) \in date_set}

\* the name test with only the team1-away / team2-home order
names_match_one_order(e, team1, team2) ==
    norm(e.home_team) = norm(team2) /\ norm(e.away_team) = norm(team1)

\* the test of the candidate loop of both scripts
names_match(e, team1, team2) ==
    \/ (norm(e.home_team) = norm(team2) /\ norm(e.away_team) = norm(team1))
    \/ (norm(e.home_team) = norm(team1) /\ norm(e.away_team) = norm(team2))

\* the candidate loop: the index in the feed of the first candidate that
\* passes the name test, 0 for match = None
match_by_names(team1, team2, date_set, events) ==
    FirstOf({k \in candidates(date_set, events) : names_match(events[k], team1, team2)})

\* the slug test of the second path with only the away-home order
slugs_match_one_order(e, away_slug, home_slug) ==
    slugify(e.away_team) = away_slug /\ slugify(e.home_team) = home_slug

\* the test of the candidate loop of the second path
slugs_match(e, away_slug, home_slug) ==
    \/ (slugify(e.away_team) = away_slug /\ slugify(e.home_team) = home_slug)
    \/ (slugify(e.away_team) = home_slug /\ slugify(e.home_team) = away_slug)

\* the candidate loop of the second path
match_by_slugs(away_slug, home_slug, date_set, events) ==
    FirstOf({k \in candidates(date_set, events) : slugs_match(events[k], away_slug, home_slug)})

\* x or y
Or(x, y) == IF x # <<>> THEN x ELSE y

NoMatch(why) == [outcome |-> why, match |-> 0]

\* ensure_game_file() up to its candidate loop: the fields are stripped, a
\* missing one skips the entry, the date set is built with no try around it,
\* and the candidates are searched
scaffold_match(ev, events) ==
    LET date  == Strip(ev.date)
        team1 == Strip(ev.team1)
        team2 == Strip(ev.team2)
        ds    == scaffold_date_set(date)
    IN  IF date = <<>> \/ team1 = <<>> \/ team2 = <<>> THEN NoMatch("malformed")
        ELSE IF ~ds.ok THEN NoMatch("raised")
        ELSE [outcome |-> "searched",
              match |-> match_by_names(team1, team2, ds.dates, events)]

\* the first path of main() up to its candidate loop
prompt_match(ev, events) ==
    LET date  == Strip(ev.date)
        team1 == Strip(ev.team1)
        team2 == Strip(ev.team2)
    IN  IF date = <<>> \/ team1 = <<>> \/ team2 = <<>> THEN NoMatch("malformed")
        ELSE [outcome |-> "searched",
              match |-> match_by_names(team1, team2, alt_dates(date), events)]

(***************************************************************************)
(* Inputs: team names, dates, feed records and intended events the runs    *)
(* are explored on                                                         *)
(***************************************************************************)
Al    == <<"A","l">>
Tn    == <<"T","n">>
TnFL  == <<"T","n"," ","(","F","L",")">>
AM    == <<"A","&","M">>
AandM == <<"A"," ","a","n","d"," ","M">>
Paren == <<"(","F","L",")">>
BvsC  == <<"B"," ","v","s"," ","C">>
None  == <<>>

D0919 == <<"2","0","2","5","-","0","9","-","1","9">>
D0920 == <<"2","0","2","5","-","0","9","-","2","0">>
D0921 == <<"2","0","2","5","-","0","9","-","2","1">>
D0301 == <<"2","0","2","4","-","0","3","-","0","1">>
D0229 == <<"2","0","2","4","-","0","2","-","2","9">>
DLoose == <<"2","0","2","5","-","9","-","2","0">>
DPadded == <<" ","2","0","2","5","-","0","9","-","2","0"," ">>
DBad  == <<"t","b","d">>
Clock == <<"T","0","0",":","3","0","Z">>

Canonical(id, home, away, commence) ==
    [id |-> id, home_team |-> home, away_team |-> away, commence_time |-> commence]

Intended(date, team1, team2, id) ==
    [date |-> date, team1 |-> team1, team2 |-> team2, id |-> id]

E1 == Canonical(<<"e","1">>, Tn, Al, D0921 \o Clock)
E2 == Canonical(<<"e","2">>, Al, Tn, D0920 \o Clock)
E3 == Canonical(<<"e","3">>, AandM, Al, D0920 \o Clock)
E4 == Canonical(<<"e","4">>, AM, Al, D0920)
E5 == Canonical(<<"e","5">>, BvsC, Al, D0919 \o Clock)
E6 == Canonical(None, Tn, Al, D0920 \o Clock)
E7 == Canonical(<<"e","7">>, None, Al, D0920 \o Clock)
E8 == Canonical(<<"e","8">>, Tn, Al, D0229 \o Clock)

I1 == Intended(D0920, Al, TnFL, None)
I2 == Intended(DPadded, Tn, Al, None)
I3 == Intended(DBad, Al, Tn, None)
I4 == Intended(None, Al, Tn, None)
I5 == Intended(D0920, Al, AM, None)
I6 == Intended(D0920, Al, BvsC, None)
I7 == Intended(DLoose, Al, Tn, None)
I8 == Intended(D0920, Paren, Al, <<"u","8">>)
I9 == Intended(D0301, Tn, Al, None)

\* storage names that no run derives, or that a run of another day derived
OrphanName   == game_filename(<<"z","z">>, <<"a","l">>, D0920)
ReversedName == game_filename(<<"t","n">>, <<"a","l">>, D0920)
ForwardName  == game_filename(<<"a","l">>, <<"t","n">>, D0920)

NoFiles == [n \in {} |-> "empty"]
OneFile(name, st) == [n \in {name} |-> st]

Feeds == {<<>>, <<E1>>, <<E2, E1>>, <<E3, E4>>, <<E5, E1>>, <<E6, E7>>, <<E8>>}

MyEventLists ==
    {<<>>, <<I1>>, <<I1, I2>>, <<I3, I1>>, <<I4, I2>>, <<I5>>, <<I6, I1>>, <<I7>>,
     <<I8>>, <<I9, I3>>}

InitialStorages ==
    {NoFiles, OneFile(OrphanName, "empty"), OneFile(ReversedName, "empty"),
     OneFile(ForwardName, "unreadable")}

\* the number of runs and authoring steps explored
MaxOps == 3

(***************************************************************************)
(* State                                                                   *)
(***************************************************************************)
VARIABLES
    my_events,   \* data/my_events.json, as loaded
    all_events,  \* data/events.json, as loaded
    files,       \* the game files of DATA_DIR
    pc,          \* "idle", or the loop a running script is in
    i,           \* the index of the next element of the running loop
    listing,     \* the sorted glob result the second path iterates over
    printed,     \* the prompt script's dedup set
    out,         \* the prompts the current (or the last) prompt run printed
    touched,     \* the files the current (or the last) scaffold run created
    aborted,     \* the last scaffold run ended in an uncaught exception
    last,        \* the locals of the last loop iteration
    lastKind,    \* the script that ran last: "none", "scaffold", "prompt"
    clean,       \* nothing outside the scripts changed storage since that run
    rerun,       \* the current (or the last) run repeats the run before it
    prevUnits,   \* the units of work of the run before it
    ops,         \* runs started and authoring steps taken so far
    arg,         \* the input of a function application
    res          \* its result

vars == <<my_events, all_events, files, pc, i, listing, printed, out, touched,
          aborted, last, lastKind, clean, rerun, prevUnits, ops, arg, res>>

inputs == <<my_events, all_events>>
applied == <<arg, res>>

NoLocals == [what |-> "none", idx |-> 0, match |-> 0, name |-> <<>>,
             away |-> <<>>, home |-> <<>>, id |-> <<>>, date |-> <<>>]

Locals(what, idx, match, name, away, home, id, date) ==
    [what |-> what, idx |-> idx, match |-> match, name |-> name,
     away |-> away, home |-> home, id |-> id, date |-> date]

Prompt(away, home, id, filename) ==
    [away |-> away, home |-> home, id |-> id, filename |-> filename]

Init ==
    /\ my_events \in MyEventLists
    /\ all_events \in Feeds
    /\ files \in InitialStorages
    /\ pc = "idle"
    /\ i = 0
    /\ listing = <<>>
    /\ printed = {}
    /\ out = <<>>
    /\ touched = <<>>
    /\ aborted = FALSE
    /\ last = NoLocals
    /\ lastKind = "none"
    /\ clean = FALSE
    /\ rerun = FALSE
    /\ prevUnits = <<>>
    /\ ops = 0
    /\ arg = <<>>
    /\ res = <<>>

(***************************************************************************)
(* scaffold_games_from_my_events.py                                        *)
(***************************************************************************)
\* main(): the lists are loaded, created = []
ScaffoldStart ==
    /\ pc = "idle"
    /\ ops < MaxOps
    /\ ops' = ops + 1
    /\ pc' = "scaffold"
    /\ i' = 1
    /\ touched' = <<>>
    /\ aborted' = FALSE
    /\ rerun' = (lastKind = "scaffold" /\ clean)
    /\ prevUnits' = touched
    /\ last' = NoLocals
    /\ UNCHANGED <<inputs, files, listing, printed, out, lastKind, clean, applied>>

\* one iteration of main()'s loop: ensure_game_file(my_events[i], all_events)
ensure_game_file ==
    /\ pc = "scaffold"
    /\ i <= Len(my_events)
    /\ LET ev    == my_events[i]
           date  == Strip(ev.date)
           r     == scaffold_match(ev, all_events)
           k     == r.match
           e     == all_events[k]
           name  == game_filename(slugify(e.away_team), slugify(e.home_team), date)
           done  == ensure_path(files, name)
       IN  IF r.outcome = "malformed"
           THEN /\ last' = Locals("malformed", i, 0, <<>>, <<>>, <<>>, <<>>, date)
                /\ i' = i + 1
                /\ UNCHANGED <<files, touched, pc, aborted, lastKind, clean>>
           ELSE IF r.outcome = "raised"
           THEN \* strptime raises ValueError: the script ends with a traceback
                /\ last' = Locals("raised", i, 0, <<>>, <<>>, <<>>, <<>>, date)
                /\ pc' = "idle"
                /\ aborted' = TRUE
                /\ lastKind' = "scaffold"
                /\ clean' = TRUE
                /\ UNCHANGED <<files, touched, i>>
           ELSE IF k = 0 \/ e.id = <<>>
           THEN /\ last' = Locals("nomatch", i, k, <<>>, <<>>, <<>>, <<>>, date)
                /\ i' = i + 1
                /\ UNCHANGED <<files, touched, pc, aborted, lastKind, clean>>
           ELSE /\ last' = Locals(IF done.created THEN "created" ELSE "exists", i, k,
                                  name, e.away_team, e.home_team, e.id, date)
                /\ files' = done.files
                /\ touched' = IF done.created THEN Append(touched, name) ELSE touched
                /\ i' = i + 1
                /\ UNCHANGED <<pc, aborted, lastKind, clean>>
    /\ UNCHANGED <<inputs, listing, printed, out, rerun, prevUnits, ops, applied>>

\* main() after the loop: "Done. Prepared N files."
ScaffoldDone ==
    /\ pc = "scaffold"
    /\ i > Len(my_events)
    /\ pc' = "idle"
    /\ lastKind' = "scaffold"
    /\ clean' = TRUE
    /\ UNCHANGED <<inputs, files, i, listing, printed, out, touched, aborted, last,
                   rerun, prevUnits, ops, applied>>

(***************************************************************************)
(* print_event_prompts.py                                                  *)
(***************************************************************************)
\* the second path testing the path, not its name, against the set of names
already_printed_by_path(done, key) == <<"path", key>> \in done

\* key in printed
already_printed(done, key) == key \in done

\* main(): the lists are loaded, printed = set()
PromptStart ==
    /\ pc = "idle"
    /\ ops < MaxOps
    /\ ops' = ops + 1
    /\ pc' = "passA"
    /\ i' = 1
    /\ printed' = {}
    /\ out' = <<>>
    /\ rerun' = (lastKind = "prompt" /\ clean)
    /\ prevUnits' = out
    /\ last' = NoLocals
    /\ UNCHANGED <<inputs, files, listing, touched, aborted, lastKind, clean, applied>>

\* one iteration of the first path's loop over my_events
PassA ==
    /\ pc = "passA"
    /\ i <= Len(my_events)
    /\ LET ev    == my_events[i]
           date  == Strip(ev.date)
           r     == prompt_match(ev, all_events)
           k     == r.match
           e     == all_events[k]
           away  == Or(e.away_team, Strip(ev.team1))
           home  == Or(e.home_team, Strip(ev.team2))
           ev_id == Or(e.id, ev.id)
           key   == find_game_file(away, home, date)
       IN  IF r.outcome = "malformed"
           THEN /\ last' = Locals("malformed", i, 0, <<>>, <<>>, <<>>, <<>>, date)
                /\ UNCHANGED <<printed, out>>
           ELSE IF k = 0
           THEN /\ last' = Locals("nomatch", i, 0, <<>>, <<>>, <<>>, <<>>, date)
                /\ UNCHANGED <<printed, out>>
           ELSE IF ~(ev_id # <<>> /\ file_is_empty(files, key))
           THEN /\ last' = Locals("notempty", i, k, key, away, home, ev_id, date)
                /\ UNCHANGED <<printed, out>>
           ELSE IF already_printed(printed, key)
           THEN /\ last' = Locals("duplicate", i, k, key, away, home, ev_id, date)
                /\ UNCHANGED <<printed, out>>
           ELSE /\ last' = Locals("prompted", i, k, key, away, home, ev_id, date)
                /\ out' = Append(out, Prompt(away, home, ev_id, key))
                /\ printed' = printed \cup {key}
    /\ i' = i + 1
    /\ UNCHANGED <<inputs, files, pc, listing, touched, aborted, lastKind, clean,
                   rerun, prevUnits, ops, applied>>

\* the first loop is exhausted: sorted(DATA_DIR.glob('game-*-vs-*-*.json'))
PassBStart ==
    /\ pc = "passA"
    /\ i > Len(my_events)
    /\ pc' = "passB"
    /\ listing' = glob_game_files(files)
    /\ i' = 1
    /\ UNCHANGED <<inputs, files, printed, out, touched, aborted, last, lastKind,
                   clean, rerun, prevUnits, ops, applied>>

\* one iteration of the second path's loop over the sorted paths
PassB ==
    /\ pc = "passB"
    /\ i <= Len(listing)
    /\ LET name == listing[i]
           m    == parse_game_filename(name)
           k    == match_by_slugs(m.away_slug, m.home_slug, alt_dates(m.date), all_events)
           e    == all_events[k]
       IN  IF ~file_is_empty(files, name)
           THEN /\ last' = Locals("b_notempty", i, 0, name, <<>>, <<>>, <<>>, <<>>)
                /\ UNCHANGED <<printed, out>>
           ELSE IF ~m.ok
           THEN /\ last' = Locals("b_unparsed", i, 0, name, <<>>, <<>>, <<>>, <<>>)
                /\ UNCHANGED <<printed, out>>
           ELSE IF k = 0
           THEN /\ last' = Locals("b_nomatch", i, 0, name, <<>>, <<>>, <<>>, m.date)
                /\ UNCHANGED <<printed, out>>
           ELSE IF already_printed(printed, name)
           THEN /\ last' = Locals("b_duplicate", i, k, name, e.away_team, e.home_team,
                                  e.id, m.date)
                /\ UNCHANGED <<printed, out>>
           ELSE /\ last' = Locals("b_prompted", i, k, name, e.away_team, e.home_team,
                                  e.id, m.date)
                /\ out' = Append(out, Prompt(e.away_team, e.home_team, e.id, name))
                /\ printed' = printed \cup {name}
    /\ i' = i + 1
    /\ UNCHANGED <<inputs, files, pc, listing, touched, aborted, lastKind, clean,
                   rerun, prevUnits, ops, applied>>

\* the second loop is exhausted: main() returns
PromptDone ==
    /\ pc = "passB"
    /\ i > Len(listing)
    /\ pc' = "idle"
    /\ lastKind' = "prompt"
    /\ clean' = TRUE
    /\ UNCHANGED <<inputs, files, i, listing, printed, out, touched, aborted, last,
                   rerun, prevUnits, ops, applied>>

(***************************************************************************)
(* The content author, outside the scripts: fills an empty game file       *)
(* between runs (the scripts are single-threaded batch runs)               *)
(***************************************************************************)
Author ==
    /\ pc = "idle"
    /\ ops < MaxOps
    /\ \E name \in DOMAIN files :
          /\ files[name] = "empty"
          /\ files' = [files EXCEPT ![name] = "populated"]
    /\ ops' = ops + 1
    /\ clean' = FALSE
    /\ UNCHANGED <<inputs, pc, i, listing, printed, out, touched, aborted, last,
                   lastKind, rerun, prevUnits, applied>>

Next ==
    \/ ScaffoldStart
    \/ ensure_game_file
    \/ ScaffoldDone
    \/ PromptStart
    \/ PassA
    \/ PassBStart
    \/ PassB
    \/ PromptDone
    \/ Author

Spec == Init /\ [][Next]_vars

(***************************************************************************)
(* The matcher and the normalizer as functions of their inputs             *)
(***************************************************************************)
TeamPool == {Al, TnFL, AM, AandM, Paren}
DatePool == {D0920, DPadded, DLoose, DBad, D0301, None}
FeedPool == {E1, E2, E3, E4, E8}

\* the longest feed the matcher is applied to
MaxFeed == 2

RECURSIVE SeqsUpTo(_, _)
SeqsUpTo(S, n) ==
    IF n = 0 THEN {<<>>}
    ELSE LET shorter == SeqsUpTo(S, n - 1)
         IN  shorter \cup {Append(s, x) : s \in {q \in shorter : Len(q) = n - 1}, x \in S}

Quiescent ==
    /\ files = NoFiles
    /\ pc = "idle"
    /\ i = 0
    /\ listing = <<>>
    /\ printed = {}
    /\ out = <<>>
    /\ touched = <<>>
    /\ aborted = FALSE
    /\ last = NoLocals
    /\ lastKind = "none"
    /\ clean = FALSE
    /\ rerun = FALSE
    /\ prevUnits = <<>>
    /\ ops = 0

driver == <<files, pc, i, listing, printed, out, touched, aborted, last, lastKind,
            clean, rerun, prevUnits, ops>>

InitMatch ==
    /\ Quiescent
    /\ my_events \in {<<Intended(d, t1, t2, None)>> :
                         d \in DatePool, t1 \in TeamPool, t2 \in TeamPool}
    /\ all_events \in SeqsUpTo(FeedPool, MaxFeed)
    /\ arg = <<>>
    /\ res = <<>>

\* the matcher of ensure_game_file() applied to the intended event
MatchInScaffold ==
    /\ arg = <<>>
    /\ arg' = <<"scaffold">>
    /\ res' = scaffold_match(my_events[1], all_events)
    /\ UNCHANGED <<inputs, driver>>

\* the matcher of the first path applied to the intended event
MatchInPrompt ==
    /\ arg = <<>>
    /\ arg' = <<"prompt">>
    /\ res' = prompt_match(my_events[1], all_events)
    /\ UNCHANGED <<inputs, driver>>

NextMatch == MatchInScaffold \/ MatchInPrompt

SpecMatch == InitMatch /\ [][NextMatch]_vars

Alphabet == {"a", "A", "1", "(", ")", "&", " ", "-"}

\* the longest name the normalizer is applied to
MaxLen == 3

InitStr ==
    /\ Quiescent
    /\ my_events = <<>>
    /\ all_events = <<>>
    /\ arg \in SeqsUpTo(Alphabet, MaxLen)
    /\ res = <<>>

\* slugify(arg), and slugify of that
ApplySlugify ==
    /\ res = <<>>
    /\ res' = <<"slugify", slugify(arg), slugify(slugify(arg))>>
    /\ UNCHANGED <<inputs, driver, arg>>

\* norm(arg), and norm of that
ApplyNorm ==
    /\ res = <<>>
    /\ res' = <<"norm", norm(arg), norm(norm(arg))>>
    /\ UNCHANGED <<inputs, driver, arg>>

NextStr == ApplySlugify \/ ApplyNorm

SpecStr == InitStr /\ [][NextStr]_vars

(***************************************************************************)
(* Properties of the runs (specification Spec)                             *)
(***************************************************************************)
RunEnded(kind) == pc = "idle" /\ clean /\ lastKind = kind

Exists(name) == name \in DOMAIN files

\* C1: a populated file stays populated in every step, and a step of either
\* script leaves every existing file as it is and creates files only empty
C1_PopulatedNeverLost ==
    [][/\ \A n \in DOMAIN files :
             files[n] = "populated" => (n \in DOMAIN files' /\ files'[n] = "populated")
       /\ (pc # "idle" \/ pc' # "idle") =>
             \A n \in DOMAIN files \cup DOMAIN files' :
                IF n \in DOMAIN files
                THEN n \in DOMAIN files' /\ files'[n] = files[n]
                ELSE files'[n] = "empty"]_vars

\* C1 witness: the scaffolding loop has just passed over an event whose file
\* is populated
C1_Witness ==
    /\ pc = "scaffold"
    /\ last.what = "exists"
    /\ Exists(last.name)
    /\ files[last.name] = "populated"

\* C2 as stated: a run that repeats the run before it, with nothing changed in
\* between, ends with no unit of work at all (no prompt, no file created)
C2_SecondRunNoWork ==
    (pc = "idle" /\ clean /\ rerun) =>
        /\ lastKind = "prompt" => out = <<>>
        /\ lastKind = "scaffold" => touched = <<>>

\* C2 amended: the repeated scaffold run creates no file, and the repeated
\* prompt run prints exactly the prompts of the run before it, none new
C2_SecondRunNothingNew ==
    (pc = "idle" /\ clean /\ rerun) =>
        /\ lastKind = "prompt" => out = prevUnits
        /\ lastKind = "scaffold" => touched = <<>>

\* C2 witness: a repeated prompt run has ended, and the run before it had
\* printed prompts
C2_Witness ==
    /\ pc = "idle" /\ clean /\ rerun
    /\ lastKind = "prompt"
    /\ prevUnits # <<>>

\* the feed holds an event in the tolerance window of the file's date whose
\* two slugified team names are the file's two slugs
HasCanonical(m) ==
    \E k \in 1..Len(all_events) :
        /\ date_only(all_events[k].commence_time) \in alt_dates(m.date)
        /\ {slugify(all_events[k].away_team), slugify(all_events[k].home_team)}
              = {m.away_slug, m.home_slug}

\* C3 as stated: at the end of a prompt run every empty file with a
\* conforming name has been prompted
C3_EveryEmptyFilePrompted ==
    RunEnded("prompt") =>
        \A n \in DOMAIN files :
            (files[n] = "empty" /\ parse_game_filename(n).ok) => n \in printed

\* C3 amended: at the end of a prompt run every empty file with a conforming
\* name for which the feed holds a matching canonical event has been prompted
C3_MatchedEmptyFilePrompted ==
    RunEnded("prompt") =>
        \A n \in DOMAIN files :
            (/\ files[n] = "empty"
             /\ parse_game_filename(n).ok
             /\ HasCanonical(parse_game_filename(n))) => n \in printed

\* C3 witness: a prompt run over an empty intended-event list has ended with a
\* prompt printed
C3_Witness ==
    /\ RunEnded("prompt")
    /\ my_events = <<>>
    /\ out # <<>>

\* C4: after every step no two prompts of the run name the same file and the
\* dedup set is the set of the file names prompted so far; the set is empty
\* when a run starts and loses no name while the run goes on
C4_OnePromptPerFile ==
    [][/\ \A a, b \in 1..Len(out') : out'[a].filename = out'[b].filename => a = b
       /\ printed' = {out'[a].filename : a \in 1..Len(out')}
       /\ (pc = "idle" /\ pc' = "passA") => printed' = {}
       /\ pc \in {"passA", "passB"} => printed \subseteq printed']_vars

\* C4 witness: a pass has just reached a file name that was already prompted
C4_Witness ==
    /\ last.what \in {"duplicate", "b_duplicate"}
    /\ last.name \in printed

\* C5: a step that prints a prompt prints it for a file that is empty
C5_PromptOnlyForEmpty ==
    [][Len(out') > Len(out) =>
          LET n == out'[Len(out')].filename
          IN  n \in DOMAIN files /\ files[n] = "empty"]_vars

\* C5 witness: a pass has just examined a file it cannot read, and printed
\* nothing for it
C5_Witness ==
    /\ last.what \in {"notempty", "b_notempty"}
    /\ Exists(last.name)
    /\ files[last.name] = "unreadable"
    /\ last.name \notin printed

\* an intended event the scaffold script turns into a file when it is alone
\* in the list: well formed, a calendar date, a canonical event with an id
ScaffoldName(ev) ==
    LET r == scaffold_match(ev, all_events)
        e == all_events[r.match]
    IN  IF r.outcome = "searched" /\ r.match # 0 /\ e.id # <<>>
        THEN game_filename(slugify(e.away_team), slugify(e.home_team), Strip(ev.date))
        ELSE <<>>

\* the file the first path examines for an intended event
PromptName(ev) ==
    LET r == prompt_match(ev, all_events)
        e == all_events[r.match]
    IN  IF r.match # 0 /\ Or(e.id, ev.id) # <<>>
        THEN find_game_file(Or(e.away_team, Strip(ev.team1)),
                            Or(e.home_team, Strip(ev.team2)), Strip(ev.date))
        ELSE <<>>

\* C6: when a run has ended, every intended event of the list that yields a
\* unit of work has yielded it, whatever records stand before it in the list
C6_BadRecordSkipped ==
    /\ RunEnded("scaffold") =>
          \A idx \in 1..Len(my_events) :
              ScaffoldName(my_events[idx]) # <<>> => Exists(ScaffoldName(my_events[idx]))
    /\ RunEnded("prompt") =>
          \A idx \in 1..Len(my_events) :
              (/\ PromptName(my_events[idx]) # <<>>
               /\ Exists(PromptName(my_events[idx]))
               /\ files[PromptName(my_events[idx])] = "empty")
                  => PromptName(my_events[idx]) \in printed

\* C10: the name derived forward from a matched canonical event (a record with
\* its id and both team names, for an intended date written YYYY-MM-DD) parses
\* back to the same slugs and date, and the second path finds the same event
\* for it
C10_ForwardBackwardAgree ==
    (/\ last.what \in {"created", "exists", "notempty", "duplicate", "prompted"}
     /\ IsDateText(last.date)
     /\ all_events[last.match].id # <<>>
     /\ all_events[last.match].away_team # <<>>
     /\ all_events[last.match].home_team # <<>>) =>
        LET m == parse_game_filename(last.name)
            k == match_by_slugs(m.away_slug, m.home_slug, alt_dates(m.date), all_events)
        IN  /\ m.ok
            /\ m.away_slug = slugify(last.away)
            /\ m.home_slug = slugify(last.home)
            /\ m.date = last.date
            /\ k = last.match
            /\ all_events[k].id = last.id
            /\ all_events[k].away_team = last.away
            /\ all_events[k].home_team = last.home

(***************************************************************************)
(* Properties of the matcher (specification SpecMatch)                     *)
(***************************************************************************)
CumulativeDays == <<0, 31, 59, 90, 120, 151, 181, 212, 243, 273, 304, 334>>

\* the number of the day y-m-d, counting from 0001-01-01
DayNumber(y, m, d) ==
    365 * (y - 1) + ((y - 1) \div 4) - ((y - 1) \div 100) + ((y - 1) \div 400)
    + CumulativeDays[m]
    + (IF m > 2 /\ ((y % 4 = 0 /\ y % 100 # 0) \/ y % 400 = 0) THEN 1 ELSE 0)
    + d

\* the text c, read as YYYY-MM-DD, is a day at most one day away from the
\* intended date; an intended date that is no calendar date has no
\* neighbours, and c must be its very text
InTolerance(c, date) ==
    LET b == strptime(date)
    IN  IF ~b.ok THEN c = date
        ELSE /\ IsDateText(c)
             /\ LET y == 1000 * DigitVal(c[1]) + 100 * DigitVal(c[2])
                         + 10 * DigitVal(c[3]) + DigitVal(c[4])
                    m == 10 * DigitVal(c[6]) + DigitVal(c[7])
                    d == 10 * DigitVal(c[9]) + DigitVal(c[10])
                    n == DayNumber(y, m, d) - DayNumber(b.y, b.m, b.d)
                IN  m \in 1..12 /\ d >= 1 /\ n \in {-1, 0, 1}

TextBeforeT(s) ==
    IF \E p \in 1..Len(s) : s[p] = "T"
    THEN Sub(s, 1, (CHOOSE p \in 1..Len(s) : s[p] = "T" /\ \A q \in 1..(p-1) : s[q] # "T") - 1)
    ELSE s

\* the canonical events that qualify for the intended event
Qualifying(ev, events) ==
    {k \in 1..Len(events) :
        /\ InTolerance(TextBeforeT(events[k].commence_time), Strip(ev.date))
        /\ {norm(events[k].home_team), norm(events[k].away_team)}
              = {norm(ev.team1), norm(ev.team2)}}

\* C7: a search of the matcher returns the first qualifying canonical event in
\* feed order, and none exactly when none qualifies
C7_FirstQualifying ==
    (res # <<>> /\ res.outcome = "searched") =>
        LET q == Qualifying(my_events[1], all_events)
        IN  IF q = {} THEN res.match = 0
            ELSE res.match \in q /\ \A k \in q : res.match <= k

\* C7 witness: two events of the feed qualify, and the one returned is the
\* first, which starts on the day after the intended date
C7_Witness ==
    /\ res # <<>> /\ res.outcome = "searched"
    /\ res.match = 1
    /\ Cardinality(Qualifying(my_events[1], all_events)) = 2
    /\ TextBeforeT(all_events[1].commence_time) = D0921
    /\ Strip(my_events[1].date) = D0920

Swapped(ev) == [ev EXCEPT !.team1 = ev.team2, !.team2 = ev.team1]

\* C8: the matcher returns for the intended event what it returns for the
\* same event with team1 and team2 exchanged
C8_SwapInvariant ==
    res # <<>> =>
        res = IF arg = <<"scaffold">>
              THEN scaffold_match(Swapped(my_events[1]), all_events)
              ELSE prompt_match(Swapped(my_events[1]), all_events)

\* C8 witness: an event is matched whose home team is the intended event's
\* team1, the two teams having different keys
C8_Witness ==
    /\ res # <<>> /\ res.outcome = "searched" /\ res.match # 0
    /\ norm(my_events[1].team1) # norm(my_events[1].team2)
    /\ norm(all_events[res.match].home_team) = norm(my_events[1].team1)

(***************************************************************************)
(* Properties of the normalizer (specification SpecStr)                    *)
(***************************************************************************)
\* C9: applying slugify, or norm, twice gives what applying it once gives
C9_Idempotent == res # <<>> => res[3] = res[2]

====
